---------------------------- MODULE Spec2Model ----------------------------
(***************************************************************************)
(* Three-body simulation: the Rosette ring station-keeper (acceleration    *)
(* law), the physics engine it is plugged into, the frame loop that drives *)
(* the engine, and the seeded starfield generator.                         *)
(*                                                                         *)
(* Numbers.  The program computes with IEEE doubles.  Here every real      *)
(* quantity is a fixed-point integer counting thousandths (SCALE = 1000):  *)
(* 0.08 is 80, 12 is 12000.  A product of two quantities is divided by     *)
(* SCALE and a quotient multiplied by it, both truncated toward zero, and  *)
(* Math.hypot is the integer square root of the sum of squares.            *)
(***************************************************************************)
EXTENDS Integers, Sequences, FiniteSets, TLC

(***************************************************************************)
(* Bounds of the model.                                                    *)
(***************************************************************************)
MaxBodies == 3
MaxFrames == 20
MaxSteps == 3
MaxResets == 2
MaxStars == 2
MaxEdits == 2

VARIABLES
    ctlInit,     \* the snapshot the controller factory was given
    ctlParams,   \* the parameter mapping the factory was called with
    ctl,         \* the constants the law closes over
    lastEval,    \* the latest direct evaluation of the law
    memo,        \* the first direct evaluation at t = 0 of a state of as
                 \* many bodies as the snapshot
    between,     \* whether another (state, t) was evaluated since memo
    physicsRef,      \* the engine, or NoEngine
    bodiesRef,       \* the bodies the scene draws
    energyStatsRef,  \* the stats cache the engine's callback writes
    stats,           \* the statistics the controls show
    isRunning,
    simulationSpeed,
    currentPreset,
    resetKey,
    resetCameraKey,
    frameCount,      \* SimulationLoop's count of running frames
    mounted,         \* whether the mount effect has run
    engineInit,      \* the initialBodies the engine was constructed from
    cbCalls,         \* how many times the engine's callback has run
    frameLog,        \* the latest operation, when a frame: its step calls
    stepLog,         \* the dt of every step call since the engine was made
    retiredStepped,  \* whether the engine last discarded had been stepped
    starDefault,     \* the starfield module's default configuration
    starLast,        \* the latest call of generateStarfield
    starMemo,        \* the remembered call of generateStarfield
    starBetween,     \* whether another configuration was generated since
    starBefore,      \* whether a call preceded the remembered one
    rngLeft,         \* the state the latest call left its generator in
    starHanded,      \* the configuration getDefaultStarfieldConfig returned
    presetData,      \* the bodies of each preset, as the module holds them
    handedOut,       \* the initial bodies handed out last
    modeEngine,      \* an engine constructed from them, or NoEngine
    editedBefore     \* whether bodies handed out earlier were written to

lawVars == <<ctlInit, ctlParams, ctl, lastEval, memo, between>>

appVars == <<physicsRef, bodiesRef, energyStatsRef, stats, isRunning,
             simulationSpeed, currentPreset, resetKey, resetCameraKey,
             frameCount, mounted, engineInit, cbCalls, frameLog, stepLog,
             retiredStepped>>

starVars == <<starDefault, starLast, starMemo, starBetween, starBefore,
              rngLeft, starHanded>>

modeVars == <<presetData, handedOut, modeEngine, editedBefore>>

vars == <<lawVars, appVars, starVars, modeVars>>

(***************************************************************************)
(* Fixed-point arithmetic.                                                 *)
(***************************************************************************)
SCALE == 1000

Abs(a) == IF a < 0 THEN -a ELSE a

Max2(a, b) == IF a >= b THEN a ELSE b

\* const v = ...; followed by the code F that uses it.
With(v, F(_)) == F(v)

Square(a) == a * a

\* Integer quotient truncated toward zero; b # 0.
TruncDiv(a, b) ==
    IF (a >= 0) = (b > 0) THEN Abs(a) \div Abs(b) ELSE -(Abs(a) \div Abs(b))

\* a * b on fixed-point numbers.
Mul(a, b) == TruncDiv(a * b, SCALE)

\* a / b on fixed-point numbers.  A zero divisor yields a non-finite value in
\* the program; the evaluation records every divisor it uses (see Divisors),
\* and the quotient reported here for b = 0 is a placeholder.
Quot(a, b) == IF b = 0 THEN 0 ELSE TruncDiv(a * SCALE, b)

RECURSIVE ISqrtFrom(_, _)
\* Newton's iteration downward from x >= sqrt(n): the largest r with r*r <= n.
ISqrtFrom(n, x) ==
    LET y == (x + n \div x) \div 2
    IN  IF y >= x THEN x ELSE ISqrtFrom(n, y)

\* The integer square root of n >= 0.
ISqrt(n) ==
    IF n = 0 THEN 0
    ELSE ISqrtFrom(n, IF n < 256 THEN 16
                      ELSE IF n < 4096 THEN 64
                      ELSE IF n < 65536 THEN 256
                      ELSE IF n < 1048576 THEN 1024
                      ELSE IF n < 16777216 THEN 4096
                      ELSE IF n < 268435456 THEN 16384
                      ELSE 46341)

\* Math.hypot(x, y, z).  Large components are scaled down before squaring, as
\* Math.hypot does to avoid intermediate overflow.
Hypot(x, y, z) ==
    With((Max2(Abs(x), Max2(Abs(y), Abs(z))) \div 16384) + 1, LAMBDA k :
    k * ISqrt(Square(TruncDiv(x, k)) + Square(TruncDiv(y, k))
              + Square(TruncDiv(z, k))))

\* x || d  without its fallback.
OrElseNothing(x, d) == x

\* JavaScript's  x || d  on numbers: d when x is 0 (or NaN), else x.
OrElse(x, d) == IF x = 0 THEN d ELSE x

Vec(x, y, z) == [x |-> x, y |-> y, z |-> z]

ZeroVec == Vec(0, 0, 0)

(***************************************************************************)
(* Bodies.  A name is a sequence of characters, so that startsWith is      *)
(* computed and not assumed.                                               *)
(***************************************************************************)
PetalPrefix == <<"P", "e", "t", "a", "l">>

NamePetal == <<"P", "e", "t", "a", "l", " ", "1">>
NameSun   == <<"S", "u", "n">>
NamePet   == <<"P", "e", "t">>

\* String.prototype.startsWith
StartsWith(name, prefix) ==
    /\ Len(name) >= Len(prefix)
    /\ SubSeq(name, 1, Len(prefix)) = prefix

Body(name, mass, pos, vel) ==
    [name |-> name, mass |-> mass, position |-> pos, velocity |-> vel]


RECURSIVE SumSeq(_)
SumSeq(s) == IF s = <<>> THEN 0 ELSE Head(s) + SumSeq(Tail(s))

(***************************************************************************)
(* makeRosetteController: the controller factory.                          *)
(***************************************************************************)
\* Gains and thrust cap.
k_r == 80
k_dr == 180
k_t == 120
k_dt == 80
k_c == 20
a_max == 40

\* Fallback target radius ("preset radius", 12), the fallback magnitude of the
\* angular momentum (1), and the two epsilons (1e-6 and 1e-9 in the program;
\* here the smallest positive fixed-point number).
FallbackRadius == 12000
FallbackMomentum == 1000
EpsPlanar == 1
EpsNorm == 1

GainKeys == {"k_r", "k_dr", "k_t", "k_dt", "k_c", "a_max"}

\* Gains with a radial stiffness of 0.1.
GainsStiffer(p) ==
    [k_r |-> 100, k_dr |-> k_dr, k_t |-> k_t, k_dt |-> k_dt, k_c |-> k_c,
     a_max |-> a_max]

\* The gains the factory gives the law.  The factory has one parameter,
\* initialBodies; a second argument (the caller's parameter mapping p) is not
\* read.
Gains(p) ==
    [k_r |-> k_r, k_dr |-> k_dr, k_t |-> k_t, k_dt |-> k_dt, k_c |-> k_c,
     a_max |-> a_max]

\* The ring taken by a shorter prefix, 'Pet'.
PetalIdxShortPrefix(bodies) ==
    SelectSeq([i \in 1..Len(bodies) |-> i],
              LAMBDA i : StartsWith(bodies[i].name, <<"P", "e", "t">>))

\* Indices (in increasing order) of the bodies whose name starts with 'Petal'.
PetalIdx(bodies) ==
    SelectSeq([i \in 1..Len(bodies) |-> i],
              LAMBDA i : StartsWith(bodies[i].name, PetalPrefix))

\* Target radius r*: mass-weighted average of the initial radii.
RStar(bodies, idx) ==
    With(SumSeq([k \in 1..Len(idx) |->
                    Mul(bodies[idx[k]].mass,
                        Hypot(bodies[idx[k]].position.x,
                              bodies[idx[k]].position.y,
                              bodies[idx[k]].position.z))]), LAMBDA mrSum :
    With(SumSeq([k \in 1..Len(idx) |-> bodies[idx[k]].mass]), LAMBDA mSum :
    IF mSum > 0 THEN Quot(mrSum, mSum) ELSE FallbackRadius))

\* sin and cos of atan2(y, x): y/hypot and x/hypot, and 0 and 1 at the origin.
SinAtan2(y, x) == IF x = 0 /\ y = 0 THEN 0 ELSE Quot(y, Hypot(x, y, 0))

CosAtan2(y, x) == IF x = 0 /\ y = 0 THEN SCALE ELSE Quot(x, Hypot(x, y, 0))

\* One body's term of the sum for w*: mass times tangential velocity over
\* planar radius.
OmegaTerm(b) ==
    With(OrElse(Hypot(b.position.x, b.position.y, 0), EpsPlanar), LAMBDA r :
    With(Mul(-b.velocity.x, SinAtan2(b.position.y, b.position.x))
         + Mul(b.velocity.y, CosAtan2(b.position.y, b.position.x)), LAMBDA vt :
    Mul(b.mass, Quot(vt, r))))

\* Target angular speed w*: mass-weighted average of tangential velocity
\* over planar radius.
OmegaStar(bodies, idx) ==
    With(SumSeq([k \in 1..Len(idx) |-> OmegaTerm(bodies[idx[k]])]), LAMBDA sum :
    With(SumSeq([k \in 1..Len(idx) |-> bodies[idx[k]].mass]), LAMBDA mSum :
    IF mSum > 0 THEN Quot(sum, mSum) ELSE 0))

\* The constants the returned law closes over.
MakeRosetteController(initialBodies, p) ==
    With(PetalIdx(initialBodies), LAMBDA idx :
    [petalIdx  |-> idx,
     rStar     |-> RStar(initialBodies, idx),
     omegaStar |-> OmegaStar(initialBodies, idx),
     gains     |-> Gains(p)])

(***************************************************************************)
(* The returned law  (state, t) => acc.                                    *)
(***************************************************************************)
Minus(a, b) == Vec(a.x - b.x, a.y - b.y, a.z - b.z)

Norm(v) == Hypot(v.x, v.y, v.z)

Over(v, d) == Vec(Quot(v.x, d), Quot(v.y, d), Quot(v.z, d))

Times(v, s) == Vec(Mul(v.x, s), Mul(v.y, s), Mul(v.z, s))

Dot(a, b) == Mul(a.x, b.x) + Mul(a.y, b.y) + Mul(a.z, b.z)

Cross(a, b) ==
    Vec(Mul(a.y, b.z) - Mul(a.z, b.y),
        Mul(a.z, b.x) - Mul(a.x, b.z),
        Mul(a.x, b.y) - Mul(a.y, b.x))

\* The sum over the ring of mass times f, divided by the ring's mass.
MassWeighted(ring, mSum, f(_)) ==
    Quot(SumSeq([k \in 1..Len(ring) |-> Mul(ring[k].mass, f(ring[k]))]), mSum)

\* One member's angular momentum about the centroid: (r x v) * mass.
AngularMomentum(b, cen, cv) ==
    Times(Cross(Minus(b.position, cen), Minus(b.velocity, cv)), b.mass)

\* Mass, mass-weighted centroid and centroid velocity of the ring, and the
\* unit normal (direction of the total angular momentum about the centroid).
RingFrame(c, state) ==
    With([k \in 1..Len(c.petalIdx) |-> state[c.petalIdx[k]]], LAMBDA ring :
    With(SumSeq([k \in 1..Len(ring) |-> ring[k].mass]), LAMBDA mSum :
    With(Vec(MassWeighted(ring, mSum, LAMBDA b : b.position.x),
             MassWeighted(ring, mSum, LAMBDA b : b.position.y),
             MassWeighted(ring, mSum, LAMBDA b : b.position.z)), LAMBDA cen :
    With(Vec(MassWeighted(ring, mSum, LAMBDA b : b.velocity.x),
             MassWeighted(ring, mSum, LAMBDA b : b.velocity.y),
             MassWeighted(ring, mSum, LAMBDA b : b.velocity.z)), LAMBDA cv :
    With([k \in 1..Len(ring) |-> AngularMomentum(ring[k], cen, cv)], LAMBDA Ls :
    With(Vec(SumSeq([k \in 1..Len(ring) |-> Ls[k].x]),
             SumSeq([k \in 1..Len(ring) |-> Ls[k].y]),
             SumSeq([k \in 1..Len(ring) |-> Ls[k].z])), LAMBDA L :
    With(OrElse(Norm(L), FallbackMomentum), LAMBDA Ln :
    [mSum |-> mSum, c |-> cen, cv |-> cv, L |-> L, Ln |-> Ln,
     n |-> Over(L, Ln)])))))))

\* The thrust cap left out.
ClampNever(a, aN, cap) == a

\* A cap applied to each component by itself.
ClampPerAxis(a, aN, cap) ==
    Vec(IF a.x > cap THEN cap ELSE IF a.x < -cap THEN -cap ELSE a.x,
        IF a.y > cap THEN cap ELSE IF a.y < -cap THEN -cap ELSE a.y,
        IF a.z > cap THEN cap ELSE IF a.z < -cap THEN -cap ELSE a.z)

\* The thrust cap: a vector a of length aN > cap is rescaled to the cap.
Clamp(a, aN, cap) == IF aN > cap THEN Times(a, Quot(cap, aN)) ELSE a

\* The correction of ring member i: radial and tangential PD control plus
\* drag, recomposed and clamped.  raw is the vector before the clamp, rel the
\* centroid-relative position and t0 the tangential vector n x r_hat.
Member(c, fr, state, i) ==
    With(Minus(state[i].position, fr.c), LAMBDA rel :
    With(Minus(state[i].velocity, fr.cv), LAMBDA v :
    With(OrElse(Norm(rel), EpsNorm), LAMBDA r :
    With(Over(rel, r), LAMBDA r_hat :
    With(Cross(fr.n, r_hat), LAMBDA t0 :
    With(OrElse(Norm(t0), EpsNorm), LAMBDA t_norm :
    With(Over(t0, t_norm), LAMBDA t_hat :
    With(Dot(v, r_hat), LAMBDA vr :
    With(Dot(v, t_hat), LAMBDA vt :
    With(-Mul(c.gains.k_r, r - c.rStar) - Mul(c.gains.k_dr, vr), LAMBDA a_r :
    With(-Mul(c.gains.k_t, vt - Mul(c.omegaStar, r)) - Mul(c.gains.k_dt, vt),
         LAMBDA a_t :
    With(Vec(Mul(a_r, r_hat.x) + Mul(a_t, t_hat.x) - Mul(c.gains.k_c, v.x),
             Mul(a_r, r_hat.y) + Mul(a_t, t_hat.y) - Mul(c.gains.k_c, v.y),
             Mul(a_r, r_hat.z) + Mul(a_t, t_hat.z) - Mul(c.gains.k_c, v.z)),
         LAMBDA raw :
    With(Norm(raw), LAMBDA aN :
    [raw |-> raw,
     out |-> Clamp(raw, aN, c.gains.a_max),
     rel |-> rel,
     t0  |-> t0,
     divisors |-> {r, t_norm} \cup (IF aN > c.gains.a_max THEN {aN} ELSE {})]
    )))))))))))))

\* The k-th ring member written to slot k.
AccSlotByRank(idx, k) == k

\* The slot of acc written for the k-th ring member:  acc[i]  with i the
\* member's own index.
AccSlot(idx, k) == idx[k]

RECURSIVE FillAcc(_, _, _, _)
\* The loop  for (const i of petalIdx) { ... acc[i] = ... }  from member k on;
\* members[k] is what the loop body computes for the k-th ring member.
FillAcc(idx, members, k, acc) ==
    IF k > Len(idx) THEN acc
    ELSE FillAcc(idx, members, k + 1,
                 [acc EXCEPT ![AccSlot(idx, k)] = members[k].out])

\* state[i] is undefined for an index past the end of state, and reading its
\* mass raises a TypeError.
LawThrows(c, state) ==
    \E k \in 1..Len(c.petalIdx) : c.petalIdx[k] > Len(state)

\* The vector before the clamp at each index of the state (zero outside the
\* ring).
RawByIndex(idx, members, n) ==
    [i \in 1..n |->
        IF \E k \in 1..Len(idx) : idx[k] = i
        THEN members[CHOOSE k \in 1..Len(idx) : idx[k] = i].raw
        ELSE ZeroVec]

\* The evaluation once the ring has mass: frame, loop, result.
LawOnRing(c, state, zeros) ==
    With(RingFrame(c, state), LAMBDA fr :
    With([k \in 1..Len(c.petalIdx) |-> Member(c, fr, state, c.petalIdx[k])],
         LAMBDA members :
    [acc |-> FillAcc(c.petalIdx, members, 1, zeros),
     raw |-> RawByIndex(c.petalIdx, members, Len(state)),
     divisors |-> {fr.mSum, fr.Ln}
                  \cup UNION {members[k].divisors : k \in 1..Len(members)}]))

\* One evaluation of the law on (state, t), for a state it does not throw on:
\* the corrections acc, the divisors the evaluation used, and for each index
\* the vector before the clamp.
Law(c, state, t) ==
    With([i \in 1..Len(state) |-> ZeroVec], LAMBDA zeros :
    IF Len(c.petalIdx) = 0
       \/ SumSeq([k \in 1..Len(c.petalIdx) |-> state[c.petalIdx[k]].mass]) <= 0
    THEN [acc |-> zeros, divisors |-> {}, raw |-> zeros]
    ELSE LawOnRing(c, state, zeros))

\* A law that keeps memory between calls: each call moves its target radius.
ClosureDrifting(c) == [c EXCEPT !.rStar = @ + 1]

\* The law writes to none of the constants it closes over (they are consts of
\* the factory's scope): the closure after a call is the closure before it.
ClosureAfterCall(c) == c

\* A law that normalises the masses of the array it is given.
StateMassNormalised(state) ==
    [i \in 1..Len(state) |-> [state[i] EXCEPT !.mass = SCALE]]

\* The law only reads state[i].mass, .position and .velocity: the caller's
\* array after a call is the array before it.
StateAfterCall(state) == state

(***************************************************************************)
(* Inputs: initial conditions and states of at most MaxBodies bodies.      *)
(* A layout gives the mass, position and velocity of the body at each      *)
(* index; names are chosen freely.                                          *)
(***************************************************************************)
Kin(m, p, v) == [mass |-> m, p |-> p, v |-> v]

\* A co-rotating pair in the xy plane, a third body on the axis through the
\* centroid, and two more bodies off the plane; equal masses.
LayoutRing ==
    <<Kin(1000, Vec(2000, 0, 0), Vec(0, 1000, 0)),
      Kin(1000, Vec(-2000, 0, 0), Vec(0, -1000, 0)),
      Kin(1000, Vec(0, 0, 1500), Vec(0, 0, 0)),
      Kin(1000, Vec(0, 2000, 500), Vec(-1000, 0, 0)),
      Kin(1000, Vec(0, -2000, -500), Vec(1000, 0, 0))>>

\* Everything at rest: no angular momentum.
LayoutRest ==
    <<Kin(1000, Vec(3000, 0, 0), Vec(0, 0, 0)),
      Kin(2000, Vec(0, 3000, 0), Vec(0, 0, 0)),
      Kin(3000, Vec(-3000, -3000, 0), Vec(0, 0, 0)),
      Kin(1000, Vec(0, 0, 3000), Vec(0, 0, 0)),
      Kin(2000, Vec(1000, 1000, 1000), Vec(0, 0, 0))>>

\* A slow ring close to its target: small corrections.
LayoutSlow ==
    <<Kin(1000, Vec(2000, 0, 0), Vec(0, 100, 0)),
      Kin(1000, Vec(-2000, 0, 0), Vec(0, -100, 0)),
      Kin(1000, Vec(0, 2000, 0), Vec(-100, 0, 0)),
      Kin(1000, Vec(0, -2000, 0), Vec(100, 0, 0)),
      Kin(1000, Vec(1400, 1400, 0), Vec(-70, 70, 0))>>

\* Unequal masses, displaced and moving in all three directions.
LayoutSkew ==
    <<Kin(1000, Vec(4000, 1000, 0), Vec(500, -2000, 500)),
      Kin(3000, Vec(-1000, 2500, 500), Vec(-1500, 0, 1000)),
      Kin(2000, Vec(500, -3000, -1000), Vec(2000, 1000, 0)),
      Kin(1000, Vec(-2500, -500, 2000), Vec(0, 1500, -500)),
      Kin(2000, Vec(1500, 1500, -2500), Vec(-500, -500, 1500))>>

Layouts == <<LayoutRing, LayoutRest, LayoutSlow, LayoutSkew>>

\* The bodies named nm[1..n] laid out by layout l.
Laid(nm, l) ==
    [i \in 1..Len(nm) |-> Body(nm[i], Layouts[l][i].mass,
                               Layouts[l][i].p, Layouts[l][i].v)]

\* Ring members and stars in any order, and a body whose name is a proper
\* prefix of 'Petal' followed by ring members.
NameSeqs ==
    UNION {[1..n -> {NamePetal, NameSun}]
           \cup {[i \in 1..n |-> IF i = 1 THEN NamePet ELSE NamePetal]} :
               n \in 1..MaxBodies}

BodySeqs == {Laid(nm, l) : nm \in NameSeqs, l \in 1..Len(Layouts)}

\* A later state of the same bodies: names and masses as in bodies, positions
\* and velocities those of layout l.
Moved(bodies, l) ==
    [i \in 1..Len(bodies) |->
        [bodies[i] EXCEPT !.position = Layouts[l][i].p,
                          !.velocity = Layouts[l][i].v]]

\* States a caller may hand to the law made for bodies: the same bodies
\* moved, and (not well-formed) one body more or one body fewer.
StatesFor(bodies) ==
    {Moved(bodies, l) : l \in 1..Len(Layouts)}
    \cup {Append(bodies, Body(NameSun, 1000, Vec(0, 0, 5000), ZeroVec))}
    \cup {SubSeq(bodies, 1, Len(bodies) - 1)}

\* Parameter mappings a caller may pass: none of the gains, or some of them.
ParamChoices ==
    {[k \in {} |-> 0],
     [k \in {"a_max", "k_r"} |-> IF k = "a_max" THEN 200 ELSE 300],
     [k \in {"a_max"} |-> 5]}

\* The (state, t) a caller may evaluate the law on: each of those states at
\* t = 0, and the snapshot itself at a later time.
EvalInputs(bodies) ==
    {<<state, 0>> : state \in StatesFor(bodies)} \cup {<<bodies, 500>>}

(***************************************************************************)
(* The physics engine (services/physicsEngine): softened pairwise gravity, *)
(* the optional controller's corrections, one explicit integration step,   *)
(* and the energy statistics with their push callback.                     *)
(*                                                                         *)
(* A time increment dt is kept at the resolution of an undivided product   *)
(* of two fixed-point numbers (one unit is 0.000001), so that              *)
(* DEFAULT_TIME_STEP * speed / steps loses no digits.                      *)
(***************************************************************************)
FINE == SCALE * SCALE

\* a * dt  for a fixed-point a and a time increment dt.
MulFine(a, dt) == TruncDiv(a * dt, FINE)

Plus(a, b) == Vec(a.x + b.x, a.y + b.y, a.z + b.z)

TimesFine(v, dt) == Vec(MulFine(v.x, dt), MulFine(v.y, dt), MulFine(v.z, dt))

RECURSIVE SumVec(_)
SumVec(s) == IF s = <<>> THEN ZeroVec ELSE Plus(Head(s), SumVec(Tail(s)))

\* Softened distance of two bodies: sqrt(|r|^2 + softening^2).
SoftDistance(bi, bj, softening) ==
    Hypot(Norm(Minus(bj.position, bi.position)), softening, 0)

\* The acceleration of bi due to bj:  G * m_j * r_ij / d^3.
PairPull(bi, bj, G, softening) ==
    With(SoftDistance(bi, bj, softening), LAMBDA d :
    Times(Over(Minus(bj.position, bi.position), d),
          Quot(Mul(G, bj.mass), Mul(d, d))))

Gravity(bodies, i, G, softening) ==
    SumVec([j \in 1..Len(bodies) |->
               IF j = i THEN ZeroVec
               ELSE PairPull(bodies[i], bodies[j], G, softening)])

\* The engine without a controller, and with the law of closure c.
NoController == [attached |-> FALSE]

Controller(c) == [attached |-> TRUE, closure |-> c]

\* The controller's corrections for the pre-step state, zero without one.
Corrections(controller, bodies, time) ==
    IF controller.attached
    THEN Law(controller.closure, bodies, time).acc
    ELSE [i \in 1..Len(bodies) |-> ZeroVec]

\* v += a * dt, then pos += v * dt.
Integrate(b, a, dt) ==
    With(Plus(b.velocity, TimesFine(a, dt)), LAMBDA v :
    [b EXCEPT !.velocity = v, !.position = Plus(b.position, TimesFine(v, dt))])

\* The bodies after one step: accelerations from the pre-step state, the
\* corrections added, every body integrated.  The controller is handed the
\* engine's own array, so what the call leaves in it is what is integrated.
Advance(bodies, controller, time, G, softening, dt) ==
    With(Corrections(controller, bodies, time), LAMBDA corr :
    With(StateAfterCall(bodies), LAMBDA pre :
    [i \in 1..Len(pre) |->
        Integrate(pre[i], Plus(Gravity(bodies, i, G, softening), corr[i]), dt)]))

\* The stability classification is a policy the specification leaves open:
\* here, a bound system.
Habitable(kinetic, potential) == kinetic + potential < 0

KineticEnergy(bodies) ==
    SumSeq([i \in 1..Len(bodies) |->
               TruncDiv(Mul(bodies[i].mass,
                            Dot(bodies[i].velocity, bodies[i].velocity)), 2)])

PotentialEnergy(bodies, G, softening) ==
    SumSeq([i \in 1..Len(bodies) |->
        SumSeq([j \in 1..Len(bodies) |->
            IF j > i
            THEN -Quot(Mul(Mul(G, bodies[i].mass), bodies[j].mass),
                       SoftDistance(bodies[i], bodies[j], softening))
            ELSE 0])])

EnergyStats(kinetic, potential) ==
    [kineticEnergy |-> kinetic, potentialEnergy |-> potential,
     totalEnergy |-> kinetic + potential,
     habitable |-> Habitable(kinetic, potential)]

\* new PhysicsEngine(initialBodies, config): the state is a copy of
\* initialBodies, no step taken, no callback registered.
NewEngine(initialBodies, config) ==
    [exists |-> TRUE, bodies |-> initialBodies, time |-> 0, stepCount |-> 0,
     G |-> config.G, softening |-> config.softening,
     timeStep |-> config.timeStep,
     energySampleInterval |-> config.energySampleInterval,
     controller |-> config.controller, statsCallback |-> FALSE]

\* physicsRef.current === null
NoEngine == [exists |-> FALSE]

\* engine.getStats()
GetStats(e) ==
    EnergyStats(KineticEnergy(e.bodies),
                PotentialEnergy(e.bodies, e.G, e.softening))

\* engine.setStatsCallback(cb)
SetStatsCallback(e) == [e EXCEPT !.statsCallback = TRUE]

\* A sampling that skips every other due step.
SampleDueLate(stepCount, interval) == stepCount % (2 * interval) = 0

\* Whether the step that made the count stepCount pushes the statistics.
SampleDue(stepCount, interval) == stepCount % interval = 0

\* engine.step(dt): the engine after the step.  A dt that is not positive is
\* rejected and the engine is as before.
EngineStep(e, dt) ==
    IF dt <= 0 THEN e
    ELSE [e EXCEPT
            !.bodies = Advance(e.bodies, e.controller, e.time, e.G,
                               e.softening, dt),
            !.controller = IF e.controller.attached
                           THEN Controller(ClosureAfterCall(e.controller.closure))
                           ELSE e.controller,
            !.time = e.time + dt,
            !.stepCount = e.stepCount + 1]

\* Whether the step that left the engine as e calls the registered callback
\* before it returns.
EngineNotifies(e, dt) ==
    dt > 0 /\ e.statsCallback /\ SampleDue(e.stepCount, e.energySampleInterval)

(***************************************************************************)
(* The preset catalogue (constants: PRESETS, generateRandomScenario).      *)
(***************************************************************************)
NameAlpha == <<"A", "l", "p", "h", "a">>
NameBeta == <<"B", "e", "t", "a">>
NameGamma == <<"G", "a", "m", "m", "a">>
NamePetal2 == <<"P", "e", "t", "a", "l", " ", "2">>

\* Three equal masses on the figure-eight orbit.
Figure8Bodies ==
    <<Body(NameAlpha, 1000, Vec(970, -243, 0), Vec(466, 432, 0)),
      Body(NameBeta, 1000, Vec(-970, 243, 0), Vec(466, 432, 0)),
      Body(NameGamma, 1000, Vec(0, 0, 0), Vec(-932, -864, 0))>>

\* A star with a co-rotating ring of two petals.
RosetteBodies ==
    <<Body(NameSun, 3000, Vec(0, 0, 0), Vec(0, 0, 0)),
      Body(NamePetal, 1000, Vec(2000, 0, 0), Vec(0, 1200, 0)),
      Body(NamePetal2, 2000, Vec(-2000, 0, 0), Vec(0, -1200, 0))>>

PRESETS ==
    <<[name |-> "Figure8", bodies |-> Figure8Bodies],
      [name |-> "Rosette", bodies |-> RosetteBodies],
      [name |-> "Random", bodies |-> <<>>]>>

PresetNames == {PRESETS[k].name : k \in 1..Len(PRESETS)}

\* What generateRandomScenario() may return: two bodies, or three.
RandomScenarios ==
    {Laid(<<NameAlpha, NameBeta>>, 3), Laid(<<NameSun, NameBeta, NameGamma>>, 4)}

\* PRESETS.find(p => p.name === presetName) || PRESETS[0]
FindPreset(presetName) ==
    IF \E k \in 1..Len(PRESETS) : PRESETS[k].name = presetName
    THEN PRESETS[CHOOSE k \in 1..Len(PRESETS) :
                     /\ PRESETS[k].name = presetName
                     /\ \A j \in 1..(k - 1) : PRESETS[j].name # presetName]
    ELSE PRESETS[1]

\* JSON.parse(JSON.stringify(bodies)): a copy, value for value.
DeepCopy(bodies) == [i \in 1..Len(bodies) |-> bodies[i]]

\* The initialBodies initSimulation(presetName) may start from.
InitialBodiesFor(presetName) ==
    IF presetName = "Random" THEN RandomScenarios
    ELSE {DeepCopy(FindPreset(presetName).bodies)}

(***************************************************************************)
(* The application: its state, initSimulation and the frame loop.          *)
(***************************************************************************)
G_CONST == 1000
DEFAULT_TIME_STEP == 10
Softening == 80
EnergySampleInterval == 1
PublishEvery == 20
InitialSpeed == 1000
InitialFps == 60000

\* The speeds the controls may set: backwards, stopped, a quarter, normal,
\* and faster than normal.
SpeedChoices == {-1000, 0, 250, 1000, 1300}

\* What the renderer hands a frame: the clock's elapsed time and the time
\* since the previous frame.
Ticks == {[elapsedTime |-> 2000, delta |-> 16], [elapsedTime |-> 3000, delta |-> 0]}

\* Math.ceil of a fixed-point number, as an integer.
Ceil(x) == -((-x) \div SCALE)

\* A loop that always takes at least one substep.
StepsAtLeastOne(speed) == Max2(1, Ceil(speed * 2))

\* const steps = Math.ceil(speed * 2)
FrameSteps(speed) == Ceil(speed * 2)

\* The whole frame's increment passed to every step call.
FrameDtUndivided(speed, steps) == DEFAULT_TIME_STEP * speed

\* const dt = (DEFAULT_TIME_STEP * speed) / steps.  With steps = 0 the
\* quotient is NaN or an infinity, which no step call is passed; 0 stands for
\* it here.
FrameDt(speed, steps) ==
    IF steps = 0 THEN 0 ELSE TruncDiv(DEFAULT_TIME_STEP * speed, steps)

\* (s) => { energyStatsRef.current = s; }: the cache after the callback ran.
StatsCallback(cache, s) == s

\* One physicsRef.current.step(dt) of the loop, the callback included.
StepCall(run, dt) ==
    With(EngineStep(run.engine, dt), LAMBDA e :
    IF EngineNotifies(e, dt)
    THEN [engine |-> e, cache |-> StatsCallback(run.cache, GetStats(e)),
          calls |-> run.calls + 1, dts |-> Append(run.dts, dt)]
    ELSE [engine |-> e, cache |-> run.cache, calls |-> run.calls,
          dts |-> Append(run.dts, dt)])

RECURSIVE RunSteps(_, _, _, _)
\* for (let i = 0; i < steps; i++) physicsRef.current.step(dt);
RunSteps(run, dt, i, steps) ==
    IF i < steps THEN RunSteps(StepCall(run, dt), dt, i + 1, steps) ELSE run

\* The statistics shown before any simulation is initialised.
InitialStats ==
    [kineticEnergy |-> 0, potentialEnergy |-> 0, totalEnergy |-> 0,
     habitable |-> FALSE, era |-> "Stable", timeElapsed |-> 0, fps |-> 0]

\* { ...s, era, timeElapsed, fps }
ShownStats(s, era, timeElapsed, fps) ==
    [kineticEnergy |-> s.kineticEnergy, potentialEnergy |-> s.potentialEnergy,
     totalEnergy |-> s.totalEnergy, habitable |-> s.habitable,
     era |-> era, timeElapsed |-> timeElapsed, fps |-> fps]

\* energyStatsRef.current === null
NoStats == [null |-> TRUE]

\* No frame ran as the latest operation.
NoFrame ==
    [kind |-> "none", speed |-> 0, steps |-> 0, dts |-> <<>>,
     published |-> FALSE]

\* A loop that publishes the statistics on every running frame.
PublishAlways(count) == TRUE

\* frameCount.current % 20 === 0
PublishDue(count) == count % PublishEvery = 0

\* The engine configuration initSimulation builds.
EngineConfig(presetName, initialBodies) ==
    [G |-> G_CONST, timeStep |-> DEFAULT_TIME_STEP, softening |-> Softening,
     energySampleInterval |-> EnergySampleInterval,
     controller |-> IF presetName = "Rosette"
                    THEN Controller(MakeRosetteController(initialBodies,
                                                          [k \in {} |-> 0]))
                    ELSE NoController]

(***************************************************************************)
(* utils/random: the Mulberry32 generator.  A 32-bit word is a pair        *)
(* <<hi, lo>> of 16-bit halves; sums and products are taken modulo 2^32 as *)
(* | 0, >>> 0 and Math.imul take them.                                     *)
(***************************************************************************)
W16 == 65536

RECURSIVE XorBits(_, _, _)
XorBits(a, b, n) ==
    IF n = 0 THEN 0
    ELSE ((a + b) % 2) + 2 * XorBits(a \div 2, b \div 2, n - 1)

RECURSIVE OrBits(_, _, _)
OrBits(a, b, n) ==
    IF n = 0 THEN 0
    ELSE (IF a % 2 = 1 \/ b % 2 = 1 THEN 1 ELSE 0)
         + 2 * OrBits(a \div 2, b \div 2, n - 1)

XorNibble == [a \in 0..15 |-> [b \in 0..15 |-> XorBits(a, b, 4)]]

OrNibble == [a \in 0..15 |-> [b \in 0..15 |-> OrBits(a, b, 4)]]

\* A bitwise operation on 16-bit numbers, nibble by nibble.
Nibbles(f, a, b) ==
    f[a \div 4096][b \div 4096] * 4096
    + f[(a \div 256) % 16][(b \div 256) % 16] * 256
    + f[(a \div 16) % 16][(b \div 16) % 16] * 16
    + f[a % 16][b % 16]

\* a ^ b
XorWord(a, b) == <<Nibbles(XorNibble, a[1], b[1]), Nibbles(XorNibble, a[2], b[2])>>

\* a | b
OrWord(a, b) == <<Nibbles(OrNibble, a[1], b[1]), Nibbles(OrNibble, a[2], b[2])>>

\* (a + b) | 0
AddWord(a, b) ==
    <<(a[1] + b[1] + ((a[2] + b[2]) \div W16)) % W16, (a[2] + b[2]) % W16>>

\* a >>> n, for 0 < n < 16 given as p = 2^n.
ShiftRight(a, p) ==
    <<a[1] \div p, ((a[1] % p) * (W16 \div p)) + (a[2] \div p)>>

\* x * y modulo 2^16, for 16-bit x and y.
MulMod16(x, y) ==
    (x * (y % 256) + ((x * (y \div 256)) % 256) * 256) % W16

\* The low word and the carry of the product of two 16-bit numbers.
MulLow(x, y) ==
    With(x * (y % 256) + ((x * (y \div 256)) % 256) * 256, LAMBDA low :
    <<(low \div W16) + ((x * (y \div 256)) \div 256), low % W16>>)

\* Math.imul(a, b)
Imul(a, b) ==
    With(MulLow(a[2], b[2]), LAMBDA low :
    <<(low[1] + MulMod16(a[1], b[2]) + MulMod16(a[2], b[1])) % W16, low[2]>>)

\* seed >>> 0: the seed truncated to an integer, modulo 2^32.
ToUint32(seed) ==
    With(TruncDiv(seed, SCALE), LAMBDA n :
    IF n >= 0 THEN <<n \div W16, n % W16>>
    ELSE <<(W16 - 1) - ((-n - 1) \div W16), (W16 - 1) - ((-n - 1) % W16)>>)

\* createSeededRandom(seed): the state s of the returned generator.
CreateSeededRandom(seed) == ToUint32(seed)

\* s = (s + 0x6d2b79f5) | 0
Advanced(s) == AddWord(s, <<27947, 31221>>)

\* let t = Math.imul(s ^ (s >>> 15), 1 | s);
\* t ^= t + Math.imul(t ^ (t >>> 7), 61 | t);
Scrambled(s) ==
    With(Imul(XorWord(s, ShiftRight(s, 32768)), OrWord(<<0, 1>>, s)), LAMBDA t :
    XorWord(t, AddWord(t, Imul(XorWord(t, ShiftRight(t, 128)),
                               OrWord(<<0, 61>>, t)))))

\* ((t ^ (t >>> 14)) >>> 0) / 4294967296, as a fixed-point number in [0, 1).
Fraction(t) ==
    With(XorWord(t, ShiftRight(t, 16384)), LAMBDA w :
    ((w[1] * SCALE) + ((w[2] * SCALE) \div W16)) \div W16)

RECURSIVE AdvancedBy(_, _, _)
\* The state after k calls that each add c to it: s + k * c modulo 2^32,
\* summed by doubling c.
AdvancedBy(s, c, k) ==
    IF k <= 0 THEN s
    ELSE AdvancedBy(IF k % 2 = 1 THEN AddWord(s, c) ELSE s, AddWord(c, c),
                    k \div 2)

\* The next n values of the generator in state s, after those in acc, and the
\* state it is left in.  The i-th call advances the state the i - 1 calls
\* before it left and returns the fraction of the scrambled state.
Draws(s, n, acc) ==
    IF n <= 0 THEN [values |-> acc, s |-> s]
    ELSE [values |-> acc \o [i \in 1..n |->
              Fraction(Scrambled(Advanced(
                  AdvancedBy(s, <<27947, 31221>>, i - 1))))],
          s |-> AdvancedBy(s, <<27947, 31221>>, n)]

\* randomRange(rand, min, max), rand() having returned r.
RandomRange(r, min, max) == min + Mul(max - min, r)

\* The index (from 1) pickRandom(rand, items) picks, rand() having returned r.
PickIndex(r, n) == ((r * n) \div SCALE) + 1

(***************************************************************************)
(* services/starfieldGenerator.                                            *)
(***************************************************************************)
MathPI == 3142

\* The model generates at most MaxStars stars in a layer of the default
\* configuration (210, 450 and 700 in the program).
DefaultCount(count) == IF count > MaxStars THEN MaxStars ELSE count

ColorWhite == <<"#", "f", "4", "f", "8", "f", "f">>
ColorBlue == <<"#", "d", "b", "e", "a", "f", "e">>
ColorCream == <<"#", "f", "f", "f", "7", "d", "6">>
ColorPink == <<"#", "f", "f", "d", "1", "d", "c">>
ColorIce == <<"#", "e", "0", "e", "c", "f", "f">>

StarLayerConfig(id, count, radius, thickness, sizeRange, twinkleSpeedRange, twinkleAmplitudeRange, driftStrength, parallaxFactor) ==
    [id |-> id, count |-> count, radius |-> radius, thickness |-> thickness,
     sizeRange |-> sizeRange, twinkleSpeedRange |-> twinkleSpeedRange,
     twinkleAmplitudeRange |-> twinkleAmplitudeRange,
     driftStrength |-> driftStrength, parallaxFactor |-> parallaxFactor]

DEFAULT_STARFIELD_CONFIG ==
    [seed |-> 1337 * SCALE,
     colorJitter |-> 100,
     palette |-> <<ColorWhite, ColorBlue, ColorCream, ColorPink, ColorIce>>,
     layers |->
        <<StarLayerConfig("near", DefaultCount(210), 45000, 18000,
                          <<6000, 14000>>, <<800, 1600>>, <<400, 1200>>,
                          50, 350),
          StarLayerConfig("mid", DefaultCount(450), 70000, 25000,
                          <<4000, 10000>>, <<400, 1200>>, <<200, 700>>,
                          20, 200),
          StarLayerConfig("far", DefaultCount(700), 110000, 30000,
                          <<3000, 7000>>, <<200, 600>>, <<50, 300>>,
                          10, 50)>>]

\* { ...layer }
CopyLayer(layer) == [k \in DOMAIN layer |-> layer[k]]

\* cloneConfig(source)
CloneConfig(source) ==
    [seed |-> source.seed,
     palette |-> [i \in 1..Len(source.palette) |-> source.palette[i]],
     colorJitter |-> source.colorJitter,
     layers |-> [i \in 1..Len(source.layers) |-> CopyLayer(source.layers[i])]]

\* A merge that spreads the caller's scalars over the base but generates from
\* the base's layers.
MergedConfigBaseLayers(baseConfig, config) ==
    [k \in DOMAIN baseConfig \cup DOMAIN config |->
        IF k = "layers"
        THEN [i \in 1..Len(baseConfig.layers) |-> CopyLayer(baseConfig.layers[i])]
        ELSE IF k \in DOMAIN config THEN config[k] ELSE baseConfig[k]]

\* { ...baseConfig, ...config, layers: (config?.layers ?? baseConfig.layers)
\*   .map((layer) => ({ ...layer })) }.  A configuration is a mapping from
\* some of the keys to values; undefined is the empty mapping.
MergedConfig(baseConfig, config) ==
    [k \in DOMAIN baseConfig \cup DOMAIN config |->
        IF k = "layers"
        THEN With(IF "layers" \in DOMAIN config THEN config.layers
                  ELSE baseConfig.layers, LAMBDA layers :
             [i \in 1..Len(layers) |-> CopyLayer(layers[i])])
        ELSE IF k \in DOMAIN config THEN config[k] ELSE baseConfig[k]]

\* Storing a number in a Float32Array keeps 24 significant bits of it.
RECURSIVE FroundBy(_, _)
FroundBy(x, p) ==
    IF Abs(x) \div p < 16777216 THEN TruncDiv(x, p) * p ELSE FroundBy(x, 2 * p)

Fround(x) == FroundBy(x, 1)

\* Math.sin on [0, 2 pi], by Bhaskara's rational approximation.
SinHalf(x) ==
    With(x * (MathPI - x), LAMBDA p :
    TruncDiv(16 * p, (5 * MathPI * MathPI - 4 * p) \div SCALE))

MathSin(theta) ==
    With(theta % (2 * MathPI), LAMBDA x :
    IF x <= MathPI THEN SinHalf(x) ELSE -SinHalf(x - MathPI))

MathCos(theta) == MathSin(theta + MathPI \div 2)

\* randomUnitVector(rand, scale), the two draws being ru and rtheta.
RandomUnitVector(ru, rtheta, scale) ==
    With(ru * 2 - SCALE, LAMBDA u :
    With(Mul(Mul(rtheta, MathPI), 2 * SCALE), LAMBDA theta :
    With(ISqrt(SCALE * SCALE - u * u), LAMBDA factor :
    <<Mul(Mul(MathCos(theta), factor), scale),
      Mul(Mul(MathSin(theta), factor), scale),
      Mul(u, scale)>>)))

\* randomPointInShell(rand, radius, thickness), the three draws being d.
RandomPointInShell(d, radius, thickness) ==
    With(RandomUnitVector(d[1], d[2], SCALE), LAMBDA dir :
    With(Max2(SCALE, radius + RandomRange(d[3], TruncDiv(-thickness, 2),
                                          TruncDiv(thickness, 2))), LAMBDA r :
    <<Mul(dir[1], r), Mul(dir[2], r), Mul(dir[3], r)>>))

HexDigits ==
    <<"0", "1", "2", "3", "4", "5", "6", "7", "8", "9",
      "a", "b", "c", "d", "e", "f">>

UpperHexDigits == <<"A", "B", "C", "D", "E", "F">>

\* The value of a hexadecimal digit, -1 for any other character.
HexValue(c) ==
    IF \E k \in 1..16 : HexDigits[k] = c
    THEN (CHOOSE k \in 1..16 : HexDigits[k] = c) - 1
    ELSE IF \E k \in 1..6 : UpperHexDigits[k] = c
    THEN (CHOOSE k \in 1..6 : UpperHexDigits[k] = c) + 9
    ELSE -1

RECURSIVE TrimStart(_)
TrimStart(s) == IF s # <<>> /\ Head(s) = " " THEN TrimStart(Tail(s)) ELSE s

RECURSIVE TrimEnd(_)
TrimEnd(s) ==
    IF s # <<>> /\ s[Len(s)] = " " THEN TrimEnd(SubSeq(s, 1, Len(s) - 1))
    ELSE s

\* hex.trim(), the leading '#' sliced off, a three-digit colour doubled.
Normalized(hex) ==
    With(TrimEnd(TrimStart(hex)), LAMBDA t :
    With(IF t # <<>> /\ Head(t) = "#" THEN Tail(t) ELSE t, LAMBDA n :
    IF Len(n) = 3 THEN <<n[1], n[1], n[2], n[2], n[3], n[3]>> ELSE n))

RECURSIVE ParseHex(_, _)
\* The low 24 bits of parseInt(s, 16) continued from acc: the digits up to
\* the first character that is not one.
ParseHex(s, acc) ==
    IF s = <<>> \/ HexValue(Head(s)) < 0 THEN acc
    ELSE ParseHex(Tail(s), (acc * 16 + HexValue(Head(s))) % 16777216)

\* hexToRGB(hex).  parseInt of a string without a leading digit is NaN, and
\* NaN >> 16 is 0.
HexToRGB(hex) ==
    With(ParseHex(Normalized(hex), 0), LAMBDA num :
    <<Quot((num \div W16) % 256, 255), Quot((num \div 256) % 256, 255),
      Quot(num % 256, 255)>>)

\* clamp(value, min, max)
ClampTo(value, min, max) ==
    IF value < min THEN min ELSE IF value > max THEN max ELSE value

\* jitterColor(base, rand, amount), the three draws being d.
JitterColor(base, d, amount) ==
    [c \in 1..3 |->
        ClampTo(base[c] + Mul(d[c] * 2 - SCALE, amount), 0, SCALE)]

\* One iteration of generateLayer's loop, from its thirteen draws d.
Star(layerConfig, palette, colorJitter, d) ==
    [pos |-> RandomPointInShell(SubSeq(d, 1, 3), layerConfig.radius,
                                layerConfig.thickness),
     color |-> JitterColor(HexToRGB(palette[PickIndex(d[4], Len(palette))]),
                           SubSeq(d, 5, 7), colorJitter),
     size |-> RandomRange(d[8], layerConfig.sizeRange[1],
                          layerConfig.sizeRange[2]),
     twinkleSpeed |-> RandomRange(d[9], layerConfig.twinkleSpeedRange[1],
                                  layerConfig.twinkleSpeedRange[2]),
     twinklePhase |-> Mul(Mul(d[10], MathPI), 2 * SCALE),
     twinkleAmplitude |-> RandomRange(d[11],
                                      layerConfig.twinkleAmplitudeRange[1],
                                      layerConfig.twinkleAmplitudeRange[2]),
     drift |-> RandomUnitVector(d[12], d[13], layerConfig.driftStrength)]

DrawsPerStar == 13

\* The StarLayerData made of the stars generated.
LayerData(layerConfig, stars) ==
    [id |-> layerConfig.id,
     count |-> layerConfig.count,
     parallaxFactor |-> layerConfig.parallaxFactor,
     positions |-> [k \in 1..(3 * Len(stars)) |->
                       Fround(stars[((k - 1) \div 3) + 1].pos[((k - 1) % 3) + 1])],
     colors |-> [k \in 1..(3 * Len(stars)) |->
                    Fround(stars[((k - 1) \div 3) + 1].color[((k - 1) % 3) + 1])],
     sizes |-> [i \in 1..Len(stars) |-> Fround(stars[i].size)],
     twinkleSpeed |-> [i \in 1..Len(stars) |-> Fround(stars[i].twinkleSpeed)],
     twinklePhase |-> [i \in 1..Len(stars) |-> Fround(stars[i].twinklePhase)],
     twinkleAmplitude |-> [i \in 1..Len(stars) |->
                              Fround(stars[i].twinkleAmplitude)],
     drift |-> [k \in 1..(3 * Len(stars)) |->
                   Fround(stars[((k - 1) \div 3) + 1].drift[((k - 1) % 3) + 1])]]

\* generateLayer(layerConfig, palette, colorJitter, rand) with the generator
\* in state s: the layer and the state the generator is left in.  With an
\* empty palette pickRandom throws at the first star, after three draws.
GenerateLayer(layerConfig, palette, colorJitter, s) ==
    IF layerConfig.count > 0 /\ Len(palette) = 0
    THEN [threw |-> TRUE, s |-> Draws(s, 3, <<>>).s]
    ELSE With(Draws(s, DrawsPerStar * layerConfig.count, <<>>), LAMBDA drawn :
         [threw |-> FALSE, s |-> drawn.s,
          layer |-> LayerData(layerConfig,
              [i \in 1..layerConfig.count |->
                  Star(layerConfig, palette, colorJitter,
                       SubSeq(drawn.values, DrawsPerStar * (i - 1) + 1,
                              DrawsPerStar * i))])])

RECURSIVE GenerateLayers(_, _, _, _)
\* mergedConfig.layers.map((layer) => generateLayer(layer, ..., rng)): the
\* layers after those in done, the generator passing from one to the next.
GenerateLayers(mergedConfig, k, s, done) ==
    IF k > Len(mergedConfig.layers)
    THEN [threw |-> FALSE, layers |-> done, s |-> s]
    ELSE With(GenerateLayer(mergedConfig.layers[k], mergedConfig.palette,
                            mergedConfig.colorJitter, s), LAMBDA made :
         IF made.threw THEN [threw |-> TRUE, layers |-> <<>>, s |-> made.s]
         ELSE GenerateLayers(mergedConfig, k + 1, made.s,
                             Append(done, made.layer)))

\* A generator shared by all the calls: it goes on from where the previous
\* call left it.
RngShared(seed, left) == left

\* const rng = createSeededRandom(mergedConfig.seed): a generator of its own
\* for every call; the one the previous call left (left) is out of reach.
NewRng(seed, left) == CreateSeededRandom(seed)

\* generateStarfield(config), with the module's default configuration.
GenerateStarfield(config, default, left) ==
    With(MergedConfig(CloneConfig(default), config), LAMBDA mergedConfig :
    GenerateLayers(mergedConfig, 1, NewRng(mergedConfig.seed, left), <<>>))

(***************************************************************************)
(* Specification SpecStar: generateStarfield is called any number of       *)
(* times, on any of a few configurations.  One call is remembered, to be   *)
(* compared with a later call.                                             *)
(***************************************************************************)
\* A layer of two stars, and one of none.
LayerPair ==
    StarLayerConfig("pair", 2, 45000, 18000, <<6000, 14000>>, <<800, 1600>>,
                    <<400, 1200>>, 50, 350)

LayerEmpty ==
    StarLayerConfig("empty", 0, 70000, 25000, <<4000, 10000>>, <<400, 1200>>,
                    <<200, 700>>, 20, 200)

\* The arguments of generateStarfield: none, a seed alone, the default
\* configuration spelled out, layers of the caller's with a whole and a
\* fractional seed, a whole configuration with short and padded colours, and
\* an empty palette.
StarConfigs ==
    {[k \in {} |-> 0],
     [seed |-> 99 * SCALE],
     DEFAULT_STARFIELD_CONFIG,
     [seed |-> SCALE, layers |-> <<LayerPair>>],
     [seed |-> SCALE + 500, layers |-> <<LayerPair>>],
     [seed |-> 2 * SCALE, colorJitter |-> 0,
      palette |-> <<<<"#", "f", "8", "0">>, <<" ", "1", "0", "2", "0", "3", "0", " ">>>>,
      layers |-> <<LayerEmpty, LayerPair>>],
     [seed |-> -SCALE, palette |-> <<>>]}

NoCall == [called |-> FALSE, config |-> <<>>, threw |-> FALSE, layers |-> <<>>]

\* getDefaultStarfieldConfig has not been called.
NoConfigHanded == [given |-> FALSE, config |-> <<>>, edits |-> 0]

\* The objects of cloneConfig(source) that are objects of the source itself.
\* The result is a new object with a new palette array ([...source.palette])
\* and a new layers array of new layer objects ({ ...layer }); the spread
\* copies a layer's sizeRange, twinkleSpeedRange and twinkleAmplitudeRange
\* as references, so the three arrays of every layer are the source's own.
SharedByCloneConfig ==
    {"sizeRange", "twinkleSpeedRange", "twinkleAmplitudeRange"}

\* The objects a configuration is made of.
ConfigParts ==
    {"config", "palette", "layers", "layer", "sizeRange", "twinkleSpeedRange",
     "twinkleAmplitudeRange"}

\* A write into an object of a configuration: config.seed = 99,
\* config.palette[0] = '#000', config.layers.length = 1,
\* config.layers[0].count = 1, config.layers[0].sizeRange[0] = 100,
\* config.layers[0].twinkleSpeedRange[1] = 5 and
\* config.layers[0].twinkleAmplitudeRange[0] = 0.
WriteConfig(config, part) ==
    IF part = "config" THEN [config EXCEPT !.seed = 99 * SCALE]
    ELSE IF part = "palette"
    THEN [config EXCEPT !.palette[1] = <<"#", "0", "0", "0">>]
    ELSE IF part = "layers" THEN [config EXCEPT !.layers = SubSeq(@, 1, 1)]
    ELSE IF part = "layer" THEN [config EXCEPT !.layers[1].count = 1]
    ELSE IF part = "sizeRange"
    THEN [config EXCEPT !.layers[1].sizeRange[1] = 100 * SCALE]
    ELSE IF part = "twinkleSpeedRange"
    THEN [config EXCEPT !.layers[1].twinkleSpeedRange[2] = 5 * SCALE]
    ELSE [config EXCEPT !.layers[1].twinkleAmplitudeRange[1] = 0]

\* The module as loaded: no call made.
StarInit ==
    /\ starDefault = DEFAULT_STARFIELD_CONFIG
    /\ starLast = NoCall
    /\ starMemo = NoCall
    /\ starBetween = FALSE
    /\ starBefore = FALSE
    /\ rngLeft = <<0, 0>>
    /\ starHanded = NoConfigHanded

(***************************************************************************)
(* Initial conditions handed out for a preset (modes/registry, and the     *)
(* copy initSimulation makes).  A body is three objects: the body record   *)
(* itself ("body": name and mass), its position and its velocity.  A copy  *)
(* is described by its values and by the objects it shares with its        *)
(* source: a write to a shared object shows in the source as well.         *)
(***************************************************************************)
\* bodies.map(b => ({ ...b })): new body records that keep the source's
\* position and velocity objects.
SharedByShallowCopy == {"position", "velocity"}

\* deepCopyBodies: bodies.map(b => ({ ...b, position: { ...b.position },
\* velocity: { ...b.velocity } })): a new array of new body records, each
\* with a new position and a new velocity object.
SharedByDeepCopyBodies == {}

\* JSON.parse(JSON.stringify(preset.bodies)): nothing of the source is kept.
SharedByJSONCopy == {}

\* The engine's state is deep-copied from the initial conditions it is
\* constructed from.
SharedByEngine == {}

\* The values of deepCopyBodies(bodies).
DeepCopyBodies(bodies) ==
    [i \in 1..Len(bodies) |->
        [bodies[i] EXCEPT
            !.position = Vec(bodies[i].position.x, bodies[i].position.y,
                             bodies[i].position.z),
            !.velocity = Vec(bodies[i].velocity.x, bodies[i].velocity.y,
                             bodies[i].velocity.z)]]

\* The modes that hand out a preset's bodies.
ModeNames == PresetNames \ {"Random"}

\* The preset data as the module defines it.
PresetBodies == [name \in ModeNames |-> FindPreset(name).bodies]

\* bodies[i].mass = value, bodies[i].position.x = value or
\* bodies[i].velocity.y = value, by the object written to.
WriteField(bodies, i, part, value) ==
    IF part = "body" THEN [bodies EXCEPT ![i].mass = value]
    ELSE IF part = "position" THEN [bodies EXCEPT ![i].position.x = value]
    ELSE [bodies EXCEPT ![i].velocity.y = value]

\* The bodies target after the objects of parts, shared with the bodies
\* source, were written to: they hold the source's values.
Overwritten(target, source, parts) ==
    [i \in 1..Len(target) |->
        [target[i] EXCEPT
            !.mass = IF "body" \in parts THEN source[i].mass ELSE @,
            !.position = IF "position" \in parts THEN source[i].position
                         ELSE @,
            !.velocity = IF "velocity" \in parts THEN source[i].velocity
                         ELSE @]]

\* What a caller writes into a body it was handed.
EditValues == {7000}

NothingHanded ==
    [given |-> FALSE, name |-> "", by |-> "", bodies |-> <<>>, shared |-> {},
     edits |-> 0]

\* The modules as loaded: nothing handed out.
ModesIdle ==
    /\ presetData = PresetBodies
    /\ handedOut = NothingHanded
    /\ modeEngine = NoEngine
    /\ editedBefore = FALSE

(***************************************************************************)
(* Specification SpecLaw: a controller is made from a snapshot and the     *)
(* returned law is then evaluated directly, any number of times.           *)
(***************************************************************************)
NoEval ==
    [called |-> FALSE, state |-> <<>>, stateAfter |-> <<>>, t |-> 0,
     threw |-> FALSE, acc |-> <<>>, raw |-> <<>>, divisors |-> {}]

\* The outcome of the call  law(state, t).
Evaluation(c, state, t) ==
    IF LawThrows(c, state)
    THEN [called |-> TRUE, state |-> state, stateAfter |-> StateAfterCall(state),
          t |-> t, threw |-> TRUE, acc |-> <<>>, raw |-> <<>>,
          divisors |-> {}]
    ELSE With(Law(c, state, t), LAMBDA res :
         [called |-> TRUE, state |-> state,
          stateAfter |-> StateAfterCall(state), t |-> t,
          threw |-> FALSE, acc |-> res.acc, raw |-> res.raw,
          divisors |-> res.divisors])

\* The application before its mount effect has run: the useState and useRef
\* initial values.
AppInit ==
    /\ physicsRef = NoEngine
    /\ bodiesRef = <<>>
    /\ energyStatsRef = NoStats
    /\ stats = InitialStats
    /\ isRunning = TRUE
    /\ simulationSpeed = InitialSpeed
    /\ currentPreset = "Figure8"
    /\ resetKey = 0
    /\ resetCameraKey = 0
    /\ frameCount = 0
    /\ mounted = FALSE
    /\ engineInit = <<>>
    /\ cbCalls = 0
    /\ frameLog = NoFrame
    /\ stepLog = <<>>
    /\ retiredStepped = FALSE

\* No controller has been made for direct evaluation.
LawIdle ==
    /\ ctlInit = <<>>
    /\ ctlParams = [k \in {} |-> 0]
    /\ ctl = MakeRosetteController(<<>>, [k \in {} |-> 0])
    /\ lastEval = NoEval
    /\ memo = NoEval
    /\ between = FALSE

InitLaw ==
    /\ AppInit
    /\ StarInit
    /\ ModesIdle
    /\ ctlInit \in BodySeqs
    /\ ctlParams \in ParamChoices
    /\ ctl = MakeRosetteController(ctlInit, ctlParams)
    /\ lastEval = NoEval
    /\ memo = NoEval
    /\ between = FALSE

EvaluateLaw(state, t) ==
    /\ lastEval' = Evaluation(ctl, state, t)
    /\ memo' = IF ~memo.called /\ t = 0 /\ Len(state) = Len(ctlInit)
               THEN lastEval' ELSE memo
    /\ between' = (between \/ (memo.called /\ (state # memo.state \/ t # memo.t)))
    /\ ctl' = ClosureAfterCall(ctl)
    /\ UNCHANGED <<ctlInit, ctlParams, appVars, starVars, modeVars>>

NextLaw == \E in \in EvalInputs(ctlInit) : EvaluateLaw(in[1], in[2])

SpecLaw == InitLaw /\ [][NextLaw]_vars

(***************************************************************************)
(* Specification Spec: the application.  It mounts (initSimulation of      *)
(* 'Figure8'), the renderer calls the frame callback, and the controls     *)
(* set the speed, pause and resume, and restart from a preset.             *)
(***************************************************************************)
\* The engine initSimulation constructs, its callback registered.
EngineFor(presetName, initialBodies) ==
    SetStatsCallback(NewEngine(initialBodies,
                               EngineConfig(presetName, initialBodies)))

\* An initSimulation that leaves the stats cache as it finds it.
CacheKept(cache, engine) == cache

\* const s = physicsRef.current.getStats(); energyStatsRef.current = s;
CacheAtInit(cache, engine) == GetStats(engine)

RECURSIVE Replay(_, _)
\* The engine e after a step call for each dt of dts, in order.
Replay(e, dts) ==
    IF dts = <<>> THEN e ELSE Replay(EngineStep(e, Head(dts)), Tail(dts))

\* initSimulation(presetName), started from initialBodies.
InitSimulation(presetName, initialBodies) ==
    /\ resetKey < MaxResets
    /\ bodiesRef' = initialBodies
    /\ physicsRef' = EngineFor(presetName, initialBodies)
    /\ currentPreset' = presetName
    /\ resetKey' = resetKey + 1
    /\ resetCameraKey' = resetCameraKey + 1
    /\ energyStatsRef' = CacheAtInit(energyStatsRef, physicsRef')
    /\ stats' = ShownStats(GetStats(physicsRef'), "Stable", 0, InitialFps)
    /\ engineInit' = initialBodies
    /\ cbCalls' = 0
    /\ frameLog' = NoFrame
    /\ stepLog' = <<>>
    /\ retiredStepped' = (physicsRef.exists /\ physicsRef.stepCount > 0)
    /\ UNCHANGED <<isRunning, simulationSpeed, frameCount>>

\* useEffect(() => { initSimulation('Figure8'); }, [initSimulation])
Mount ==
    /\ ~mounted
    /\ mounted' = TRUE
    /\ \E initialBodies \in InitialBodiesFor("Figure8") :
           InitSimulation("Figure8", initialBodies)
    /\ UNCHANGED <<lawVars, starVars, modeVars>>

\* resetSimulation={initSimulation}: the controls restart from a preset.
ResetSimulation(presetName) ==
    /\ mounted
    /\ \E initialBodies \in InitialBodiesFor(presetName) :
           InitSimulation(presetName, initialBodies)
    /\ UNCHANGED <<mounted, lawVars, starVars, modeVars>>

\* The loop of one running frame, from the engine, the stats cache and the
\* callback count before it.
FrameRun(engine, cache, calls, speed) ==
    With(FrameSteps(speed), LAMBDA steps :
    RunSteps([engine |-> engine, cache |-> cache, calls |-> calls,
              dts |-> <<>>],
             FrameDt(speed, steps), 0, steps))

\* The statistics a frame shows: the cached ones, or the engine's.
RawStats(cache, engine) == IF cache # NoStats THEN cache ELSE GetStats(engine)

\* The useFrame callback of SimulationLoop.
Frame(tick) ==
    IF ~isRunning \/ ~physicsRef.exists
    THEN /\ frameLog' = [kind |-> "returned", speed |-> simulationSpeed,
                         steps |-> 0, dts |-> <<>>, published |-> FALSE]
         /\ UNCHANGED <<physicsRef, bodiesRef, energyStatsRef, stats,
                        isRunning, simulationSpeed, currentPreset, resetKey,
                        resetCameraKey, frameCount, mounted, engineInit,
                        cbCalls, stepLog, retiredStepped, lawVars, starVars, modeVars>>
    ELSE /\ frameCount < MaxFrames
         /\ physicsRef.stepCount + Max2(0, FrameSteps(simulationSpeed))
                <= MaxSteps
         /\ \E run \in {FrameRun(physicsRef, energyStatsRef, cbCalls,
                                 simulationSpeed)} :
                /\ physicsRef' = run.engine
                /\ bodiesRef' = run.engine.bodies
                /\ cbCalls' = run.calls
                /\ stepLog' = stepLog \o run.dts
                /\ frameLog' = [kind |-> "ran", speed |-> simulationSpeed,
                                steps |-> FrameSteps(simulationSpeed),
                                dts |-> run.dts,
                                published |-> PublishDue(frameCount + 1)]
                /\ frameCount' = frameCount + 1
                /\ IF PublishDue(frameCount')
                   THEN \E rawStats \in {RawStats(run.cache, run.engine)} :
                            /\ energyStatsRef' = rawStats
                            /\ stats' = ShownStats(rawStats,
                                   IF rawStats.habitable THEN "Stable"
                                   ELSE "Chaotic",
                                   tick.elapsedTime,
                                   IF tick.delta > 0
                                   THEN Quot(SCALE, tick.delta) ELSE 0)
                   ELSE /\ energyStatsRef' = run.cache
                        /\ UNCHANGED stats
         /\ UNCHANGED <<isRunning, simulationSpeed, currentPreset, resetKey,
                        resetCameraKey, mounted, engineInit, retiredStepped,
                        lawVars, starVars, modeVars>>

SetSimulationSpeed(speed) ==
    /\ simulationSpeed' = speed
    /\ frameLog' = NoFrame
    /\ UNCHANGED <<physicsRef, bodiesRef, energyStatsRef, stats, isRunning,
                   currentPreset, resetKey, resetCameraKey, frameCount,
                   mounted, engineInit, cbCalls, stepLog, retiredStepped,
                   lawVars, starVars, modeVars>>

SetIsRunning(running) ==
    /\ isRunning' = running
    /\ frameLog' = NoFrame
    /\ UNCHANGED <<physicsRef, bodiesRef, energyStatsRef, stats,
                   simulationSpeed, currentPreset, resetKey, resetCameraKey,
                   frameCount, mounted, engineInit, cbCalls, stepLog,
                   retiredStepped, lawVars, starVars, modeVars>>

Init == AppInit /\ LawIdle /\ StarInit /\ ModesIdle

Next ==
    \/ Mount
    \/ \E presetName \in PresetNames : ResetSimulation(presetName)
    \/ \E tick \in Ticks : Frame(tick)
    \/ \E speed \in SpeedChoices : SetSimulationSpeed(speed)
    \/ \E running \in BOOLEAN : SetIsRunning(running)

Spec == Init /\ [][Next]_vars

\* generateStarfield(config); keep says whether this is the call remembered.
GenerateCall(config, keep) ==
    /\ \E out \in {GenerateStarfield(config, starDefault, rngLeft)} :
           /\ starLast' = [called |-> TRUE, config |-> config,
                           threw |-> out.threw, layers |-> out.layers]
           /\ rngLeft' = out.s
    /\ IF keep
       THEN /\ starMemo' = starLast'
            /\ starBefore' = starLast.called
            /\ starBetween' = FALSE
       ELSE /\ starBetween' = (starBetween
                                 \/ (starMemo.called /\ config # starMemo.config))
            /\ UNCHANGED <<starMemo, starBefore>>
    /\ UNCHANGED <<starDefault, starHanded, lawVars, appVars, modeVars>>

InitStar == StarInit /\ AppInit /\ LawIdle /\ ModesIdle

NextStar == \E config \in StarConfigs, keep \in BOOLEAN : GenerateCall(config, keep)

SpecStar == InitStar /\ [][NextStar]_vars

(***************************************************************************)
(* Specification SpecDefault: callers take the default configuration from  *)
(* getDefaultStarfieldConfig, write into it, and generate starfields from  *)
(* it and from no argument.                                                *)
(***************************************************************************)
\* getDefaultStarfieldConfig()
GetDefaultStarfieldConfig ==
    /\ starHanded' = [given |-> TRUE, config |-> CloneConfig(starDefault),
                      edits |-> 0]
    /\ UNCHANGED <<starDefault, starLast, starMemo, starBetween, starBefore,
                   rngLeft, lawVars, appVars, modeVars>>

\* The caller writes into part of the configuration it was returned.  The
\* write is to the module's default as well when that object is shared.
MutateConfig(part) ==
    /\ starHanded.given
    /\ starHanded.edits < MaxEdits
    /\ starHanded' = [starHanded EXCEPT !.config = WriteConfig(@, part),
                                        !.edits = @ + 1]
    /\ starDefault' = IF part \in SharedByCloneConfig
                      THEN WriteConfig(starDefault, part) ELSE starDefault
    /\ UNCHANGED <<starLast, starMemo, starBetween, starBefore, rngLeft,
                   lawVars, appVars, modeVars>>

\* generateStarfield(config) with the configuration returned, as it is now.
GenerateFromHanded ==
    /\ starHanded.given
    /\ GenerateCall(starHanded.config, FALSE)

\* generateStarfield()
GenerateFromNothing == GenerateCall([k \in {} |-> 0], FALSE)

InitDefault == StarInit /\ AppInit /\ LawIdle /\ ModesIdle

NextDefault ==
    \/ GetDefaultStarfieldConfig
    \/ \E part \in ConfigParts : MutateConfig(part)
    \/ GenerateFromHanded
    \/ GenerateFromNothing

SpecDefault == InitDefault /\ [][NextDefault]_vars

(***************************************************************************)
(* Specification SpecModes: initial bodies are handed out for a preset, by *)
(* a mode's createInitialBodies or by initSimulation's copy; the caller    *)
(* writes to them, and constructs an engine from them and steps it.        *)
(***************************************************************************)
\* A copy of the preset's bodies is handed out.
HandOut(name, by, bodies, shared) ==
    /\ handedOut' = [given |-> TRUE, name |-> name, by |-> by,
                     bodies |-> bodies, shared |-> shared, edits |-> 0]
    /\ editedBefore' = (editedBefore \/ handedOut.edits > 0
                          \/ modeEngine.exists)
    /\ modeEngine' = NoEngine
    /\ UNCHANGED <<presetData, lawVars, appVars, starVars>>

\* mode.createInitialBodies() of a mode that is not 'Random'.
CreateInitialBodies(name) ==
    HandOut(name, "createInitialBodies", DeepCopyBodies(presetData[name]),
            SharedByDeepCopyBodies)

\* initialBodies = JSON.parse(JSON.stringify(preset.bodies))
InitSimulationCopy(name) ==
    HandOut(name, "initSimulation", DeepCopy(presetData[name]),
            SharedByJSONCopy)

\* The caller writes value into part of the i-th body it was handed.
MutateReturned(i, part, value) ==
    /\ handedOut.given
    /\ handedOut.edits < MaxEdits
    /\ i \in 1..Len(handedOut.bodies)
    /\ handedOut' = [handedOut EXCEPT
                        !.bodies = WriteField(@, i, part, value),
                        !.edits = @ + 1]
    /\ presetData' = [presetData EXCEPT
                         ![handedOut.name] =
                             IF part \in handedOut.shared
                             THEN WriteField(@, i, part, value) ELSE @]
    /\ UNCHANGED <<modeEngine, editedBefore, lawVars, appVars, starVars>>

\* An engine is constructed from the bodies handed out and stepped n times.
\* Its steps write to its own state; an object it shared with the bodies it
\* was constructed from would change with it.
Simulate(n) ==
    /\ handedOut.given
    /\ ~modeEngine.exists
    /\ modeEngine' = Replay(EngineFor(handedOut.name, handedOut.bodies),
                            [k \in 1..n |->
                                FrameDt(InitialSpeed, FrameSteps(InitialSpeed))])
    /\ handedOut' = [handedOut EXCEPT
                        !.bodies = Overwritten(@, modeEngine'.bodies,
                                               SharedByEngine)]
    /\ presetData' = [presetData EXCEPT
                         ![handedOut.name] =
                             Overwritten(@, modeEngine'.bodies,
                                         SharedByEngine \cap handedOut.shared)]
    /\ UNCHANGED <<editedBefore, lawVars, appVars, starVars>>

InitModes == ModesIdle /\ AppInit /\ LawIdle /\ StarInit

NextModes ==
    \/ \E name \in ModeNames : CreateInitialBodies(name)
    \/ \E name \in ModeNames : InitSimulationCopy(name)
    \/ \E i \in 1..MaxBodies, part \in {"body", "position", "velocity"},
          value \in EditValues : MutateReturned(i, part, value)
    \/ \E n \in 1..MaxSteps : Simulate(n)

SpecModes == InitModes /\ [][NextModes]_vars


(***************************************************************************)
(* modes/registry: the documented parameters.                              *)
(***************************************************************************)
\* { key, ..., default, min, max, step }
ParameterMeta(key, default, min, max, step) ==
    [key |-> key, default |-> default, min |-> min, max |-> max,
     step |-> step]

\* The parameters of the Rosette mode.
RosetteParameters ==
    <<ParameterMeta("k_r", 80, 0, 500, 10),
      ParameterMeta("k_dr", 180, 0, 1000, 10),
      ParameterMeta("k_t", 120, 0, 500, 10),
      ParameterMeta("k_dt", 80, 0, 500, 10),
      ParameterMeta("k_c", 20, 0, 200, 5),
      ParameterMeta("a_max", 40, 5, 200, 5)>>

\* getDefaultGlobalParams()
GetDefaultGlobalParams == [G |-> 1000, softening |-> 80, timeStep |-> 10]

\* getGlobalParameterSchema()
GetGlobalParameterSchema ==
    <<ParameterMeta("G", 1000, 50, 5000, 50),
      ParameterMeta("softening", 80, 0, 500, 10),
      ParameterMeta("timeStep", 10, 1, 50, 1)>>

(***************************************************************************)
(* Properties of the acceleration law (specification SpecLaw).             *)
(***************************************************************************)
Returned == lastEval.called /\ ~lastEval.threw

\* The ring subset, read off the names of the snapshot.
InRing(i) ==
    /\ i \in 1..Len(ctlInit)
    /\ Len(ctlInit[i].name) >= 5
    /\ \A j \in 1..5 : ctlInit[i].name[j] = PetalPrefix[j]

Magnitude(v) == Hypot(v.x, v.y, v.z)

\* A state the engine can hand to the law: as many bodies as the snapshot,
\* every mass positive.
WellFormed(state) ==
    /\ Len(state) = Len(ctlInit)
    /\ \A i \in 1..Len(state) : state[i].mass > 0

\* C1: every correction the law returns at an index outside the ring subset
\* (the indices whose name in the initial snapshot starts with 'Petal') is
\* the zero vector; with an empty ring subset every correction is zero.
C1_ZeroOutsideRing ==
    Returned =>
        \A i \in 1..Len(lastEval.acc) :
            ~InRing(i) => lastEval.acc[i] = ZeroVec

\* A returned evaluation with a ring member that got a non-zero correction
\* beside a body named 'Pet', which got none.
C1_Witness ==
    /\ Returned
    /\ \E i \in 1..Len(lastEval.acc) :
           InRing(i) /\ lastEval.acc[i] # ZeroVec
    /\ \E i \in 1..Len(ctlInit) :
           ~InRing(i) /\ ctlInit[i].name = NamePet /\ lastEval.acc[i] = ZeroVec

\* The documented defaults of the gains (modes/registry).
RosetteDefaults ==
    [k_r |-> 80, k_dr |-> 180, k_t |-> 120, k_dt |-> 80, k_c |-> 20,
     a_max |-> 40]

\* The acceleration cap the caller configured: the a_max of the parameters,
\* or its documented default when the parameters carry none.
ConfiguredCap ==
    IF "a_max" \in DOMAIN ctlParams THEN ctlParams["a_max"]
    ELSE RosetteDefaults.a_max

\* C2: no correction the law returns is longer than the configured
\* acceleration cap a_max.
C2_WithinConfiguredCap ==
    Returned =>
        \A i \in 1..Len(lastEval.acc) :
            Magnitude(lastEval.acc[i]) <= ConfiguredCap

\* The clamp of the law itself: no correction it returns is longer than the
\* a_max the law holds.
WithinBuiltInCap ==
    Returned =>
        \A i \in 1..Len(lastEval.acc) :
            Magnitude(lastEval.acc[i]) <= ctl.gains.a_max

\* A correction that was longer than the law's a_max before the clamp and is
\* returned non-zero.
ClampedReturned ==
    /\ Returned
    /\ \E i \in 1..Len(lastEval.acc) :
           /\ Magnitude(lastEval.raw[i]) > ctl.gains.a_max
           /\ lastEval.acc[i] # ZeroVec
           /\ Magnitude(lastEval.acc[i]) <= ctl.gains.a_max

\* C3: the law returns exactly one correction per body of the state, and the
\* one at index i is the correction computed for the body at index i.
C3_AlignedByIndex ==
    Returned =>
        /\ Len(lastEval.acc) = Len(lastEval.state)
        /\ \A i \in 1..Len(lastEval.state) :
               lastEval.acc[i] =
                   IF InRing(i)
                   THEN Member(ctl, RingFrame(ctl, lastEval.state),
                               lastEval.state, i).out
                   ELSE ZeroVec

\* A returned evaluation whose ring does not begin at index 1: a ring member
\* follows a body outside the ring, and both corrections are non-zero or zero
\* as they should be.
C3_Witness ==
    /\ Returned
    /\ Len(lastEval.state) >= 3
    /\ ~InRing(1) /\ InRing(2) /\ InRing(3)
    /\ lastEval.acc[1] = ZeroVec
    /\ lastEval.acc[2] # ZeroVec
    /\ lastEval.acc[3] # lastEval.acc[2]

C5_GainsFromParameters ==
    \A k \in GainKeys :
        ctl.gains[k] = IF k \in DOMAIN ctlParams THEN ctlParams[k]
                       ELSE RosetteDefaults[k]

\* C6: on a well-formed state the evaluation returns, with one correction
\* per body, and none of its divisors is zero.
C6_Total ==
    (lastEval.called /\ WellFormed(lastEval.state)) =>
        /\ ~lastEval.threw
        /\ 0 \notin lastEval.divisors
        /\ Len(lastEval.acc) = Len(lastEval.state)

\* The ring has angular momentum and a member whose centroid-relative
\* position is parallel to the plane normal: its tangential vector vanishes
\* and the epsilon stands in for its norm.
C6_Witness ==
    /\ Returned /\ WellFormed(lastEval.state)
    /\ Len(ctl.petalIdx) > 0
    /\ LET fr == RingFrame(ctl, lastEval.state)
       IN  /\ fr.L # ZeroVec
           /\ \E k \in 1..Len(ctl.petalIdx) :
                  LET mb == Member(ctl, fr, lastEval.state, ctl.petalIdx[k])
                  IN  mb.rel # ZeroVec /\ mb.t0 = ZeroVec

\* The ring has no angular momentum about its centroid: 1 stands in for the
\* magnitude.
C6_WitnessNoMomentum ==
    /\ Returned /\ WellFormed(lastEval.state)
    /\ Len(ctl.petalIdx) > 1
    /\ RingFrame(ctl, lastEval.state).L = ZeroVec

\* A ring member coincides with the centroid: the epsilon stands in for its
\* radius.
C6_WitnessAtCentroid ==
    /\ Returned /\ WellFormed(lastEval.state)
    /\ Len(ctl.petalIdx) > 0
    /\ LET fr == RingFrame(ctl, lastEval.state)
       IN  \E k \in 1..Len(ctl.petalIdx) :
               Member(ctl, fr, lastEval.state, ctl.petalIdx[k]).rel = ZeroVec

\* Two vectors along one line, up to the truncation (less than one unit in
\* each component) of the rescaled one.
Parallel(out, raw) ==
    /\ Abs(out.x * raw.y - out.y * raw.x) <= Abs(raw.x) + Abs(raw.y)
    /\ Abs(out.y * raw.z - out.z * raw.y) <= Abs(raw.y) + Abs(raw.z)
    /\ Abs(out.z * raw.x - out.x * raw.z) <= Abs(raw.z) + Abs(raw.x)

\* What the truncations of the factor a_max / aN and of the three products
\* can take off the length of the rescaled vector.
ClampRoundOff(aN) == 2 + aN \div SCALE

\* C13: the clamp preserves direction.  A ring body's correction of length
\* at most a_max is returned as it is; a longer one is returned multiplied by
\* the positive factor a_max / |a|: it points the same way and its length is
\* the cap.
C13_ClampKeepsDirection ==
    Returned =>
        \A i \in 1..Len(lastEval.acc) :
            \E raw \in {lastEval.raw[i]}, out \in {lastEval.acc[i]} :
                IF Magnitude(raw) <= ctl.gains.a_max
                THEN out = raw
                ELSE /\ Quot(ctl.gains.a_max, Magnitude(raw)) > 0
                     /\ out = Times(raw, Quot(ctl.gains.a_max, Magnitude(raw)))
                     /\ Parallel(out, raw)
                     /\ out.x * raw.x + out.y * raw.y + out.z * raw.z > 0
                     /\ Magnitude(out) <= ctl.gains.a_max
                     /\ Magnitude(out) >= ctl.gains.a_max
                                             - ClampRoundOff(Magnitude(raw))

\* One evaluation that returned a ring body's correction unchanged, below the
\* cap, and rescaled another's, with two non-zero components, to the cap.
C13_Witness ==
    /\ Returned
    /\ \E i \in 1..Len(lastEval.acc) :
           /\ InRing(i)
           /\ lastEval.raw[i] # ZeroVec
           /\ Magnitude(lastEval.raw[i]) <= ctl.gains.a_max
           /\ lastEval.acc[i] = lastEval.raw[i]
    /\ \E i \in 1..Len(lastEval.acc) :
           /\ Magnitude(lastEval.raw[i]) > ctl.gains.a_max
           /\ lastEval.acc[i] # lastEval.raw[i]
           /\ lastEval.acc[i].x # 0 /\ lastEval.acc[i].y # 0
           /\ lastEval.raw[i].x # lastEval.raw[i].y

\* min <= default <= max
WithinRange(meta) == meta.min <= meta.default /\ meta.default <= meta.max

\* C16: the documented defaults are truthful.  Every parameter of the
\* Rosette gains and of the global parameters has min <= default <= max;
\* each global default is the value getDefaultGlobalParams returns for its
\* key; and each Rosette gain default is the value the law uses for a gain
\* the caller did not supply.
C16_DefaultsTruthful ==
    /\ \A k \in 1..Len(RosetteParameters) : WithinRange(RosetteParameters[k])
    /\ \A k \in 1..Len(GetGlobalParameterSchema) :
           /\ WithinRange(GetGlobalParameterSchema[k])
           /\ GetGlobalParameterSchema[k].key \in DOMAIN GetDefaultGlobalParams
           /\ GetGlobalParameterSchema[k].default
                  = GetDefaultGlobalParams[GetGlobalParameterSchema[k].key]
    /\ {RosetteParameters[k].key : k \in 1..Len(RosetteParameters)} = GainKeys
    /\ \A k \in 1..Len(RosetteParameters) :
           RosetteParameters[k].key \notin DOMAIN ctlParams =>
               ctl.gains[RosetteParameters[k].key] = RosetteParameters[k].default

\* A law made without parameters returned a non-zero correction, and one
\* made with a_max and k_r supplied uses the defaults of the other gains.
C16_Witness ==
    /\ Returned
    /\ \E i \in 1..Len(lastEval.acc) : lastEval.acc[i] # ZeroVec
    /\ \/ DOMAIN ctlParams = {}
       \/ DOMAIN ctlParams = {"a_max", "k_r"}
    /\ \A k \in 1..Len(RosetteParameters) :
           RosetteParameters[k].key \notin DOMAIN ctlParams =>
               ctl.gains[RosetteParameters[k].key] = RosetteParameters[k].default

C7_WitnessNoController ==
    /\ physicsRef.exists
    /\ ~physicsRef.controller.attached
    /\ physicsRef.stepCount >= 2
    /\ \E i \in 1..Len(engineInit) :
           /\ physicsRef.bodies[i].position # engineInit[i].position
           /\ physicsRef.bodies[i].velocity # engineInit[i].velocity

\* C8: the registered callback has run once for every energySampleInterval-th
\* step the engine has taken and never otherwise, and it ran inside that
\* step: whenever the latest step was a sampled one, the stats cache the
\* callback writes already holds the statistics of the engine's state.
C8_CallbackInline ==
    (physicsRef.exists /\ physicsRef.statsCallback) =>
        /\ cbCalls = physicsRef.stepCount \div physicsRef.energySampleInterval
        /\ physicsRef.stepCount % physicsRef.energySampleInterval = 0
               => energyStatsRef = GetStats(physicsRef)

\* A frame has just stepped the engine several times, the callback ran each
\* time, and the cache holds statistics that differ from the initial ones.
C8_Witness ==
    /\ physicsRef.exists /\ physicsRef.statsCallback
    /\ frameLog.kind = "ran" /\ Len(frameLog.dts) >= 2
    /\ cbCalls = physicsRef.stepCount
    /\ energyStatsRef = GetStats(physicsRef)
    /\ energyStatsRef # GetStats(EngineFor(currentPreset, engineInit))

\* C9: every step call a frame issues is passed dt > 0, and a frame whose
\* speed yields no substep (steps <= 0) issues no step call.
C9_PositiveDt ==
    /\ \A k \in 1..Len(frameLog.dts) : frameLog.dts[k] > 0
    /\ (frameLog.kind = "ran" /\ frameLog.steps <= 0) => frameLog.dts = <<>>
    /\ (frameLog.kind = "ran" /\ frameLog.steps > 0)
           => Len(frameLog.dts) = frameLog.steps

\* A running frame at a quarter of the normal speed: one step call, with
\* dt = 0.0025.
C9_Witness ==
    /\ frameLog.kind = "ran"
    /\ frameLog.speed = 250
    /\ frameLog.dts = <<2500>>

\* A running frame at speed 0, and one at a negative speed: no step call.
C9_WitnessNoSubstep ==
    /\ frameLog.kind = "ran"
    /\ frameLog.speed = 0
    /\ frameLog.dts = <<>>

C9_WitnessBackwards ==
    /\ frameLog.kind = "ran"
    /\ frameLog.speed < 0
    /\ frameLog.steps < 0
    /\ frameLog.dts = <<>>


\* The engine e with its bodies, clock and step count put back to those of
\* an engine just constructed from initialBodies.
Rewound(e, initialBodies) ==
    [e EXCEPT !.bodies = initialBodies, !.time = 0, !.stepCount = 0]

\* C14: a scenario switch replaces the engine wholesale.  The engine the
\* frame loop steps is the one the most recent initSimulation made (its
\* configuration, controller and bodies' names and masses), stepped by the
\* step calls issued since and by no others; the stats callback is
\* registered on it; and the stats cache holds that engine's statistics, its
\* initial ones until a frame steps it, never those of an engine discarded.
C14_EngineReplaced ==
    physicsRef.exists =>
        /\ physicsRef.statsCallback
        /\ Rewound(physicsRef, engineInit)
              = EngineFor(currentPreset, engineInit)
        /\ physicsRef.stepCount = Len(stepLog)
        /\ physicsRef.time = SumSeq(stepLog)
        /\ Len(physicsRef.bodies) = Len(engineInit)
        /\ \A i \in 1..Len(engineInit) :
               /\ physicsRef.bodies[i].name = engineInit[i].name
               /\ physicsRef.bodies[i].mass = engineInit[i].mass
        /\ energyStatsRef = GetStats(physicsRef)
        /\ physicsRef.stepCount = 0 =>
               energyStatsRef = GetStats(EngineFor(currentPreset, engineInit))

\* An engine that had been stepped was replaced by initSimulation, and the
\* new engine was stepped by a frame: its statistics are no longer the
\* initial ones, and the cache holds them.
C14_Witness ==
    /\ physicsRef.exists
    /\ resetKey >= 2
    /\ retiredStepped
    /\ frameLog.kind = "ran"
    /\ stepLog # <<>>
    /\ physicsRef.stepCount = Len(stepLog)
    /\ energyStatsRef = GetStats(physicsRef)
    /\ energyStatsRef # GetStats(EngineFor(currentPreset, engineInit))

\* Right after such a switch: the new engine is not stepped yet and the cache
\* holds its initial statistics.
C14_WitnessSwitched ==
    /\ physicsRef.exists
    /\ resetKey >= 2
    /\ retiredStepped
    /\ physicsRef.stepCount = 0
    /\ frameLog = NoFrame
    /\ energyStatsRef = GetStats(physicsRef)

\* C17: at a speed > 0 a running frame issues exactly ceil(2 * speed) step
\* calls, all with the same dt; the dts add up to DEFAULT_TIME_STEP * speed
\* (short of it by the truncation of the quotient, less than one unit a
\* step); and every dt is at most DEFAULT_TIME_STEP / 2.
C17_SubstepPolicy ==
    (frameLog.kind = "ran" /\ frameLog.speed > 0) =>
        /\ Len(frameLog.dts) = Ceil(2 * frameLog.speed)
        /\ \A k \in 1..Len(frameLog.dts) : frameLog.dts[k] = frameLog.dts[1]
        /\ SumSeq(frameLog.dts) <= DEFAULT_TIME_STEP * frameLog.speed
        /\ SumSeq(frameLog.dts)
              > DEFAULT_TIME_STEP * frameLog.speed - Len(frameLog.dts)
        /\ \A k \in 1..Len(frameLog.dts) :
               2 * frameLog.dts[k] <= DEFAULT_TIME_STEP * SCALE

\* A frame at speed 1.3: three step calls of a third of 0.013 each.
C17_Witness ==
    /\ frameLog.kind = "ran"
    /\ frameLog.speed = 1300
    /\ Len(frameLog.dts) = 3
    /\ physicsRef.stepCount = 3
    /\ frameLog.dts[1] < (DEFAULT_TIME_STEP * SCALE) \div 2

\* A frame at speed 1: two step calls of DEFAULT_TIME_STEP / 2.
C17_WitnessNormalSpeed ==
    /\ frameLog.kind = "ran"
    /\ frameLog.speed = InitialSpeed
    /\ frameLog.dts = <<(DEFAULT_TIME_STEP * SCALE) \div 2,
                        (DEFAULT_TIME_STEP * SCALE) \div 2>>

\* C19: a frame while the simulation is paused or there is no engine issues
\* no step call, leaves the bodies snapshot and the frame counter as they
\* were and publishes no statistics; a frame while running counts itself,
\* and publishes statistics only when its count is a multiple of 20.
C19_FramePolicy ==
    [][/\ frameLog'.kind = "returned" =>
              /\ ~isRunning \/ ~physicsRef.exists
              /\ frameLog'.dts = <<>>
              /\ physicsRef' = physicsRef
              /\ cbCalls' = cbCalls
              /\ bodiesRef' = bodiesRef
              /\ frameCount' = frameCount
              /\ ~frameLog'.published
              /\ stats' = stats
       /\ frameLog'.kind = "ran" =>
              /\ isRunning /\ physicsRef.exists
              /\ frameCount' = frameCount + 1
              /\ frameLog'.published => frameCount' % PublishEvery = 0
              /\ ~frameLog'.published => stats' = stats]_vars

\* A frame returned while paused, the engine having been stepped before; the
\* counter stands where the running frames left it.
C19_Witness ==
    /\ frameLog.kind = "returned"
    /\ ~isRunning
    /\ physicsRef.exists
    /\ physicsRef.stepCount > 0
    /\ frameCount > 0
    /\ bodiesRef = physicsRef.bodies

\* A frame returned before any engine exists.
C19_WitnessNoEngine ==
    /\ frameLog.kind = "returned"
    /\ isRunning
    /\ ~physicsRef.exists

\* The twentieth running frame published the statistics.
C19_WitnessPublished ==
    /\ frameLog.kind = "ran"
    /\ frameLog.published
    /\ frameCount = PublishEvery
    /\ stats.timeElapsed > 0

\* A running frame that stepped the engine and published nothing.
C19_WitnessNotPublished ==
    /\ frameLog.kind = "ran"
    /\ ~frameLog.published
    /\ frameLog.dts # <<>>
    /\ frameCount % PublishEvery # 0

(***************************************************************************)
(* Properties of the starfield generator (specification SpecStar).         *)
(***************************************************************************)
\* The configuration a call generates from.
Effective(config) == MergedConfig(CloneConfig(starDefault), config)

C10_WitnessSameArgument ==
    /\ starMemo.called /\ ~starMemo.threw
    /\ starBefore /\ starBetween
    /\ starLast.config = starMemo.config
    /\ Len(starMemo.layers) > 1
    /\ Len(starMemo.layers[2].positions) > 0
    /\ starLast.layers = starMemo.layers

\* The layers the caller configured: those of the argument, or the module's
\* default layers when the argument has none.
ConfiguredLayers(config) ==
    IF "layers" \in DOMAIN config THEN config.layers ELSE starDefault.layers

\* C11: a returned starfield has one layer per configured layer, in the same
\* order and with the same id; each layer's count is the configured count,
\* its positions, colors and drift have 3 * count elements and its sizes,
\* twinkleSpeed, twinklePhase and twinkleAmplitude have count elements.
C11_RespectsLayers ==
    (starLast.called /\ ~starLast.threw) =>
        /\ Len(starLast.layers) = Len(ConfiguredLayers(starLast.config))
        /\ \A k \in 1..Len(starLast.layers) :
               \E layer \in {starLast.layers[k]},
                  configured \in {ConfiguredLayers(starLast.config)[k]} :
                   /\ layer.id = configured.id
                   /\ layer.count = configured.count
                   /\ Len(layer.positions) = 3 * configured.count
                   /\ Len(layer.colors) = 3 * configured.count
                   /\ Len(layer.drift) = 3 * configured.count
                   /\ Len(layer.sizes) = configured.count
                   /\ Len(layer.twinkleSpeed) = configured.count
                   /\ Len(layer.twinklePhase) = configured.count
                   /\ Len(layer.twinkleAmplitude) = configured.count

\* A call given layers of its own, an empty one before one of two stars,
\* returned them in that order.
C11_Witness ==
    /\ starLast.called /\ ~starLast.threw
    /\ "layers" \in DOMAIN starLast.config
    /\ starLast.config.layers = <<LayerEmpty, LayerPair>>
    /\ Len(starLast.layers) = 2
    /\ starLast.layers[1].id = "empty" /\ starLast.layers[1].positions = <<>>
    /\ starLast.layers[2].id = "pair" /\ Len(starLast.layers[2].positions) = 6

\* A call without layers returned the module's default layers.
C11_WitnessDefaultLayers ==
    /\ starLast.called /\ ~starLast.threw
    /\ "layers" \notin DOMAIN starLast.config
    /\ Len(starLast.layers) = 3
    /\ starLast.layers[2].id = "mid"
    /\ Len(starLast.layers[2].sizes) = DefaultCount(450)

\* Two configurations that differ only in their seed.
DifferOnlyInSeed(a, b) ==
    /\ a.seed # b.seed
    /\ a.palette = b.palette
    /\ a.colorJitter = b.colorJitter
    /\ a.layers = b.layers

\* The remembered call and the latest one both returned a first layer, from
\* configurations that differ only in their seed.
SeedAloneChanged ==
    /\ starLast.called /\ ~starLast.threw
    /\ starMemo.called /\ ~starMemo.threw
    /\ DifferOnlyInSeed(Effective(starLast.config), Effective(starMemo.config))
    /\ Len(starLast.layers) > 0

\* C12: two configurations that differ only in their seed produce first
\* layers whose position arrays are not equal.
C12_SeedsDiffer ==
    SeedAloneChanged =>
        starLast.layers[1].positions # starMemo.layers[1].positions

\* What createSeededRandom keeps of the seed (seed >>> 0) differs as well:
\* then the first layers' positions differ.
SeedWordsDiffer ==
    (/\ SeedAloneChanged
     /\ ToUint32(Effective(starLast.config).seed)
            # ToUint32(Effective(starMemo.config).seed))
    => starLast.layers[1].positions # starMemo.layers[1].positions

\* The default layers generated from the seeds 1337 and 99, with different
\* positions.
SeedWordsDifferReached ==
    /\ SeedAloneChanged
    /\ Effective(starMemo.config).seed = 1337 * SCALE
    /\ Effective(starLast.config).seed = 99 * SCALE
    /\ starLast.layers[1].positions # starMemo.layers[1].positions

\* The seeds 1 and 1.5, which createSeededRandom takes for the same seed.
SeedFractionDropped ==
    /\ SeedAloneChanged
    /\ Effective(starMemo.config).seed = SCALE
    /\ Effective(starLast.config).seed = SCALE + 500
    /\ Len(starMemo.layers[1].positions) > 0
    /\ starLast.layers[1].positions = starMemo.layers[1].positions

C15_WitnessWritten ==
    /\ handedOut.given
    /\ handedOut.by = "createInitialBodies"
    /\ handedOut.edits = MaxEdits
    /\ \E i \in 1..Len(handedOut.bodies) :
           handedOut.bodies[i].position # presetData[handedOut.name][i].position
    /\ \E i \in 1..Len(handedOut.bodies) :
           handedOut.bodies[i].velocity # presetData[handedOut.name][i].velocity

\* The same for the copy initSimulation makes.
C15_WitnessInitSimulation ==
    /\ handedOut.given
    /\ handedOut.by = "initSimulation"
    /\ handedOut.edits > 0
    /\ handedOut.bodies # presetData[handedOut.name]
    /\ modeEngine.exists

(***************************************************************************)
(* Properties of the default configuration (specification SpecDefault).    *)
(***************************************************************************)
\* C18: the module's default starfield configuration is never changed from
\* outside.  Whatever was written into a configuration that
\* getDefaultStarfieldConfig returned and whatever was generated, the
\* default is as the module defined it, so that a later
\* getDefaultStarfieldConfig() returns the same values and generateStarfield()
\* produces the same layers.
C18_DefaultNeverChanged ==
    /\ starDefault = DEFAULT_STARFIELD_CONFIG
    /\ CloneConfig(starDefault) = CloneConfig(DEFAULT_STARFIELD_CONFIG)
    /\ (starLast.called /\ DOMAIN starLast.config = {}) =>
           starLast.layers
             = GenerateStarfield(starLast.config, DEFAULT_STARFIELD_CONFIG,
                                 <<0, 0>>).layers

\* The configuration with the three range arrays of its first layer put
\* back to the module's.
WithDefaultRanges(config) ==
    [config EXCEPT
        !.layers[1].sizeRange = DEFAULT_STARFIELD_CONFIG.layers[1].sizeRange,
        !.layers[1].twinkleSpeedRange =
            DEFAULT_STARFIELD_CONFIG.layers[1].twinkleSpeedRange,
        !.layers[1].twinkleAmplitudeRange =
            DEFAULT_STARFIELD_CONFIG.layers[1].twinkleAmplitudeRange]

\* Nothing but the range arrays of the default is ever changed: its seed,
\* palette, colour jitter and the other fields of its layers stay.
DefaultChangedInRangesOnly ==
    WithDefaultRanges(starDefault) = DEFAULT_STARFIELD_CONFIG

\* Writes to the seed and to the palette of a returned configuration left
\* the default as it was, and generateStarfield() returned the stars of the
\* module's default.
DefaultKeptReached ==
    /\ starHanded.given
    /\ starHanded.edits = MaxEdits
    /\ starHanded.config.seed # DEFAULT_STARFIELD_CONFIG.seed
    /\ starHanded.config.palette # DEFAULT_STARFIELD_CONFIG.palette
    /\ starDefault = DEFAULT_STARFIELD_CONFIG
    /\ starLast.called /\ DOMAIN starLast.config = {}
    /\ Len(starLast.layers) = 3

\* A write to sizeRange[0] of the first layer of a returned configuration
\* changed the default, and generateStarfield() returned other sizes.
DefaultChangedReached ==
    /\ starHanded.given
    /\ starDefault.layers[1].sizeRange
          # DEFAULT_STARFIELD_CONFIG.layers[1].sizeRange
    /\ starLast.called /\ DOMAIN starLast.config = {}
    /\ starLast.layers[1].sizes
          # GenerateStarfield(starLast.config, DEFAULT_STARFIELD_CONFIG,
                              <<0, 0>>).layers[1].sizes

=============================================================================
